---- MODULE Spec2Model ----
(***************************************************************************)
(* send_call.py: send_call_transcript(transcript, caller_name,            *)
(* caller_phone) builds a call report (id, timestamp, transcript, caller) *)
(* from two reads of the system clock, POSTs it once to a fixed webhook    *)
(* and prints the outcome.                                                 *)
(*                                                                         *)
(* Text that the program formats or parses (the id, the ISO-8601           *)
(* timestamp, response bodies, printed arguments) is a sequence of         *)
(* one-character strings, so that formatting and parsing are computed.     *)
(* The caller's three arguments are opaque strings: the code never looks   *)
(* inside them.                                                            *)
(***************************************************************************)
EXTENDS Integers, Sequences, FiniteSets, TLC

VARIABLES
    clock,        \* the system's realtime clock: [sec, tick], tick in 0..TicksPerSec-1
    stepped,      \* history: the clock was set back since the current invocation began
    seen,         \* history: the whole seconds the clock showed since the current
                  \* invocation began
    pc,           \* position of the (single, synchronous) caller in send_call_transcript
    args,         \* the invocation's arguments, None outside an invocation
    current_time, \* local of line 12
    id_second,    \* history: the whole second of the clock read of line 16
    payload,      \* local of lines 15-23
    response,     \* local of line 32
    exc,          \* the exception in flight or caught (e of line 42), None if none
    requests,     \* the POSTs this invocation has handed to requests.post
    stdout,       \* the lines this invocation has printed
    prev          \* history: the previous invocation's id, the second of its clock
                  \* read of line 16, and its transcript

vars == <<clock, stepped, seen, pc, args, current_time,
          id_second, payload, response, exc, requests, stdout, prev>>

None == [none |-> TRUE]

----------------------------------------------------------------------------
(* Bounds of the model *)

\* clock resolution: ticks per second (the real clock has 10^6)
TicksPerSec == 2
\* ticks the clock may run past the start of the second it started in
MaxTicks == 3

----------------------------------------------------------------------------
(* Decimal text *)

DigitChars == <<"0", "1", "2", "3", "4", "5", "6", "7", "8", "9">>

IsDigit(c) == c \in {"0", "1", "2", "3", "4", "5", "6", "7", "8", "9"}

DigitValue(c) ==
    CASE c = "0" -> 0 [] c = "1" -> 1 [] c = "2" -> 2 [] c = "3" -> 3 [] c = "4" -> 4
      [] c = "5" -> 5 [] c = "6" -> 6 [] c = "7" -> 7 [] c = "8" -> 8 [] c = "9" -> 9

RECURSIVE NatStr(_)
\* str(n) of a non-negative int
NatStr(n) ==
    IF n < 10 THEN <<DigitChars[n + 1]>>
    ELSE NatStr(n \div 10) \o <<DigitChars[(n % 10) + 1]>>

\* str(n) of an int: Python writes a leading minus sign for a negative one
IntStr(n) == IF n < 0 THEN <<"-">> \o NatStr(0 - n) ELSE NatStr(n)

RECURSIVE Pad(_, _)
\* n in decimal, zero-padded to at least w characters (strftime-style %0wd)
Pad(n, w) == IF w <= 1 THEN NatStr(n)
             ELSE IF Len(NatStr(n)) >= w THEN NatStr(n)
             ELSE <<"0">> \o Pad(n, w - 1)

RECURSIVE FieldValue(_, _, _)
\* the number the decimal digits s[a..b] denote
FieldValue(s, a, b) ==
    IF b < a THEN 0 ELSE 10 * FieldValue(s, a, b - 1) + DigitValue(s[b])

\* the number a sequence of decimal digits denotes
DigitsValue(s) == FieldValue(s, 1, Len(s))

AllDigits(s) == Len(s) >= 1 /\ \A i \in 1..Len(s) : IsDigit(s[i])

----------------------------------------------------------------------------
(* The clock and the two conversions of lines 12 and 16 *)

\* UTC offset of pytz's Asia/Kolkata, in seconds (+05:30, in force since 1945)
IstOffsetSeconds == 19800

SecondsPerDay == 86400

MicrosPerSecond == 1000000

\* the seconds the model's clock may start in: the epoch, the second before the id
\* gains a digit, and the seconds before 29 February 2024 and before 2025 begin
\* in IST
StartSeconds == {0, 9, 1709144999, 1735669799}

\* the clock k ticks after the start of second s
ClockAfter(s, k) == [sec |-> s + (k \div TicksPerSec), tick |-> k % TicksPerSec]

ClockValues == {ClockAfter(s, k) : s \in StartSeconds, k \in 0..MaxTicks}

\* c1 is earlier than c2
Earlier(c1, c2) == c1.sec < c2.sec \/ (c1.sec = c2.sec /\ c1.tick < c2.tick)

\* the values the clock may take when it started in the window c lies in
Window(c) ==
    {ClockAfter(s, k) : s \in {s \in StartSeconds : s <= c.sec /\ c.sec <= s + MaxTicks},
                        k \in 0..MaxTicks}

\* datetime.now(): one read of the system clock
Now == clock

\* int(dt.timestamp()): the POSIX timestamp is a float, int() truncates towards
\* zero; the clock is never before the epoch, so this is the whole second
IntTimestamp(t) == t.sec

\* the microsecond field of a clock value
Microsecond(t) == t.tick * (MicrosPerSecond \div TicksPerSec)

\* f"call_{...}": the prefix and str() of the int
FormatId(n) == <<"c", "a", "l", "l", "_">> \o IntStr(n)

\* variant of MakeId: the id carries the tick within the second as a last digit
MakeId_subsecond(t) == FormatId(IntTimestamp(t)) \o NatStr(t.tick)

\* variant of MakeId: the timestamp is not truncated
MakeId_float(t) ==
    FormatId(IntTimestamp(t)) \o <<".">> \o NatStr(Microsecond(t))

\* line 16: the id of a clock read
MakeId(t) == FormatId(IntTimestamp(t))

\* proleptic Gregorian date of a day number (days since 1970-01-01)
CivilFromDays(days) ==
    LET z   == days + 719468
        era == z \div 146097
        doe == z - era * 146097
        yoe == (doe - doe \div 1460 + doe \div 36524 - doe \div 146096) \div 365
        doy == doe - (365 * yoe + yoe \div 4 - yoe \div 100)
        mp  == (5 * doy + 2) \div 153
        d   == doy - (153 * mp + 2) \div 5 + 1
        m   == IF mp < 10 THEN mp + 3 ELSE mp - 9
        y   == yoe + era * 400 + (IF m <= 2 THEN 1 ELSE 0)
    IN  [year |-> y, month |-> m, day |-> d]

\* day number of a proleptic Gregorian date
DaysFromCivil(y, m, d) ==
    LET yy  == IF m <= 2 THEN y - 1 ELSE y
        era == yy \div 400
        yoe == yy - era * 400
        mp  == IF m > 2 THEN m - 3 ELSE m + 9
        doy == (153 * mp + 2) \div 5 + d - 1
        doe == yoe * 365 + yoe \div 4 - yoe \div 100 + doy
    IN  era * 146097 + doe - 719468

\* datetime.isoformat() of an aware datetime with the given UTC offset:
\* YYYY-MM-DDTHH:MM:SS[.ffffff]+HH:MM, the fraction left out when it is zero
IsoFormat(t, offset) ==
    LET local == t.sec + offset
        date  == CivilFromDays(local \div SecondsPerDay)
        sod   == local % SecondsPerDay
        us    == Microsecond(t)
    IN  Pad(date.year, 4) \o <<"-">> \o Pad(date.month, 2) \o <<"-">>
        \o Pad(date.day, 2) \o <<"T">> \o Pad(sod \div 3600, 2) \o <<":">>
        \o Pad((sod % 3600) \div 60, 2) \o <<":">> \o Pad(sod % 60, 2)
        \o (IF us = 0 THEN <<>> ELSE <<".">> \o Pad(us, 6))
        \o <<"+">> \o Pad(offset \div 3600, 2) \o <<":">>
        \o Pad((offset % 3600) \div 60, 2)

\* variant of NowIst: IST wall time labelled as UTC
NowIst_mislabelled(t) ==
    IsoFormat([sec |-> t.sec + IstOffsetSeconds, tick |-> t.tick], 0)

\* line 12: datetime.now(ist).isoformat() of a clock read
NowIst(t) == IsoFormat(t, IstOffsetSeconds)

\* the UTC offset, in seconds, an ISO-8601 text ends with
IsoOffset(s) ==
    LET n == Len(s)
    IN  FieldValue(s, n - 4, n - 3) * 3600 + FieldValue(s, n - 1, n) * 60

\* the whole epoch second an ISO-8601 text denotes
IsoEpochSecond(s) ==
    LET days == DaysFromCivil(FieldValue(s, 1, 4), FieldValue(s, 6, 7),
                              FieldValue(s, 9, 10))
    IN  days * SecondsPerDay + FieldValue(s, 12, 13) * 3600
        + FieldValue(s, 15, 16) * 60 + FieldValue(s, 18, 19) - IsoOffset(s)

\* the text after the prefix of an id
IdDigits(id) == SubSeq(id, 6, Len(id))

----------------------------------------------------------------------------
(* Response bodies: response.json() and what print shows of its result *)

\* index of the first double quote of s at or after i, 0 if there is none
RECURSIVE FindQuote(_, _)
FindQuote(s, i) ==
    IF i > Len(s) THEN 0
    ELSE IF s[i] = "\"" THEN i
    ELSE FindQuote(s, i + 1)

\* index after the run of digits of s that starts at i
RECURSIVE DigitsEnd(_, _)
DigitsEnd(s, i) ==
    IF i <= Len(s) /\ IsDigit(s[i]) THEN DigitsEnd(s, i + 1) ELSE i

ParseFail == [ok |-> FALSE]

\* a JSON string at s[i] (s[i] is its opening quote); the bodies of the model
\* hold no escapes
ParseString(s, i) ==
    LET j == FindQuote(s, i + 1)
    IN  IF j = 0 THEN ParseFail
        ELSE [ok |-> TRUE, val |-> [t |-> "str", chars |-> SubSeq(s, i + 1, j - 1)],
              next |-> j + 1]

\* json.loads' scanner on the grammar the bodies of the model are drawn from:
\* strings, non-negative integers and objects, no white space. The result of
\* an object is its members in order (a dict keeps insertion order).
RECURSIVE ParseValue(_, _)
RECURSIVE ParseMembers(_, _, _)
ParseValue(s, i) ==
    IF i > Len(s) THEN ParseFail
    ELSE IF s[i] = "\"" THEN ParseString(s, i)
    ELSE IF IsDigit(s[i]) THEN
        \* a number that starts with 0 ends there
        LET e == IF s[i] = "0" THEN i + 1 ELSE DigitsEnd(s, i)
        IN  [ok |-> TRUE, val |-> [t |-> "int", n |-> DigitsValue(SubSeq(s, i, e - 1))],
             next |-> e]
    ELSE IF s[i] = "{" THEN
        IF i + 1 <= Len(s) /\ s[i + 1] = "}"
        THEN [ok |-> TRUE, val |-> [t |-> "dict", items |-> <<>>], next |-> i + 2]
        ELSE ParseMembers(s, i + 1, <<>>)
    ELSE ParseFail

\* the members of an object from s[i] on, after those already read
ParseMembers(s, i, items) ==
    IF i > Len(s) \/ s[i] # "\"" THEN ParseFail
    ELSE LET k == ParseString(s, i)
         IN  IF ~k.ok \/ k.next > Len(s) \/ s[k.next] # ":" THEN ParseFail
             ELSE LET v == ParseValue(s, k.next + 1)
                  IN  IF ~v.ok \/ v.next > Len(s) THEN ParseFail
                      ELSE LET all == Append(items, [key |-> k.val, val |-> v.val])
                           IN  IF s[v.next] = "}"
                               THEN [ok |-> TRUE, val |-> [t |-> "dict", items |-> all],
                                     next |-> v.next + 1]
                               ELSE IF s[v.next] = ","
                               THEN ParseMembers(s, v.next + 1, all)
                               ELSE ParseFail

\* response.json(): the parsed body, or a decode error (also for text left over)
ResponseJson(text) ==
    LET r == ParseValue(text, 1)
    IN  IF r.ok /\ r.next = Len(text) + 1 THEN [ok |-> TRUE, val |-> r.val]
        ELSE ParseFail

\* repr() of a parsed value
RECURSIVE Repr(_)
RECURSIVE ReprItems(_)
Repr(v) ==
    IF v.t = "str" THEN <<"'">> \o v.chars \o <<"'">>
    ELSE IF v.t = "int" THEN IntStr(v.n)
    ELSE <<"{">> \o ReprItems(v.items) \o <<"}">>

ReprItems(items) ==
    IF items = <<>> THEN <<>>
    ELSE Repr(items[1].key) \o <<":", " ">> \o Repr(items[1].val)
         \o (IF Len(items) > 1 THEN <<",", " ">> \o ReprItems(Tail(items)) ELSE <<>>)

\* str() of a parsed value, which print applies: a str is shown as it is
Str(v) == IF v.t = "str" THEN v.chars ELSE Repr(v)

\* one printed line: the fixed text and the text of the value after it
Line(msg, arg) == [msg |-> msg, arg |-> arg]

SuccessMsg == "Call transcript sent successfully!"
ResponseMsg == "Response:"
StatusErrorMsg == "Error: Server returned status code"
RequestErrorMsg == "Error sending request:"

----------------------------------------------------------------------------
(* Inputs and the outcomes of the HTTP call *)

Transcripts == {"", "Hi, I'm calling about the new JioFiber Gaming Plus plan."}
Names == {"", "Arjun Kumar"}
Phones == {"", "+91-9876543210"}

\* line 8
Url == "http://localhost:3000/webhook"

\* lines 26-28
Headers == [ContentType |-> "application/json"]

StatusOk == 200

StatusCodes == {200, 201, 204, 500}

BodyJson == <<"{", "\"", "s", "t", "a", "t", "u", "s", "\"", ":", "\"", "o", "k", "\"", "}">>
BodyText == <<"i", "n", "t", "e", "r", "n", "a", "l", " ", "e", "r", "r", "o", "r">>

Bodies == {BodyJson, BodyText}

\* str(e) of the transport failures requests.post raises
ConnectionRefused == <<"r", "e", "f", "u", "s", "e", "d">>
TimedOut == <<"t", "i", "m", "e", "d", " ", "o", "u", "t">>

\* str(e) of response.json()'s decode error
ExpectingValue == <<"E", "x", "p", "e", "c", "t", "i", "n", "g", " ", "v", "a", "l", "u", "e">>

\* requests.exceptions.ConnectionError and Timeout derive from RequestException
TransportErrors ==
    {[cls |-> "ConnectionError", isRequestException |-> TRUE, str |-> ConnectionRefused],
     [cls |-> "Timeout", isRequestException |-> TRUE, str |-> TimedOut]}

\* the errors response.json() raises on a body that is not JSON. Which one
\* depends on the requests installed, which the repository does not pin:
\* requests.exceptions.JSONDecodeError (a RequestException) from requests 2.27
\* on, json.JSONDecodeError (a ValueError only) before
JsonDecodeErrors ==
    {[cls |-> "JSONDecodeError", isRequestException |-> b, str |-> ExpectingValue] :
        b \in BOOLEAN}

\* variant of Payload: name and phone exchanged
Payload_swapped(id, timestamp, a) ==
    [id |-> id, timestamp |-> timestamp, transcript |-> a.transcript,
     caller |-> [name |-> a.caller_phone, phone |-> a.caller_name]]

\* variant of Payload: the id of the previous invocation is kept
Payload_cached(id, timestamp, a) ==
    IF prev = None
    THEN [id |-> id, timestamp |-> timestamp, transcript |-> a.transcript,
          caller |-> [name |-> a.caller_name, phone |-> a.caller_phone]]
    ELSE [id |-> prev.id, timestamp |-> timestamp, transcript |-> a.transcript,
          caller |-> [name |-> a.caller_name, phone |-> a.caller_phone]]

\* lines 15-23
Payload(id, timestamp, a) ==
    [id |-> id, timestamp |-> timestamp, transcript |-> a.transcript,
     caller |-> [name |-> a.caller_name, phone |-> a.caller_phone]]

\* variant of Catches: except ValueError
Catches_value_error(e) == e.cls = "JSONDecodeError"

\* line 42: the except clause catches RequestException and its subclasses
Catches(e) == e.isRequestException

\* variant of TextLine: the body is parsed when it can be
TextLine_parsed(r) ==
    LET j == ResponseJson(r.text)
    IN  Line(ResponseMsg, IF j.ok THEN Str(j.val) ELSE <<>>)

\* line 40: the line printed for the body of a response that is not a success
TextLine(r) == Line(ResponseMsg, r.text)

\* variant of AfterHandler: the request is tried again
AfterHandler_retry == "line32"

\* after line 43 the function falls off its end
AfterHandler == "returned"

\* variant of IsSuccess: every 2xx status counts
IsSuccess_2xx(status_code) == status_code \div 100 = 2

\* line 35
IsSuccess(status_code) == status_code = StatusOk

----------------------------------------------------------------------------
(* The state machine *)

Init ==
    /\ clock \in {c \in ClockValues : c.sec \in StartSeconds /\ c.tick = 0}
    /\ stepped = FALSE
    /\ seen = {}
    /\ pc = "idle"
    /\ args = None
    /\ current_time = None
    /\ id_second = None
    /\ payload = None
    /\ response = None
    /\ exc = None
    /\ requests = <<>>
    /\ stdout = <<>>
    /\ prev = None

InCall == pc # "idle"

\* The clock moves at every moment. The model follows it while a read of it is
\* still ahead (outside an invocation, and in one up to line 16): later moves
\* change nothing the program or a property reads before the next invocation,
\* and before that invocation the clock can reach every value again.
ReadAhead == pc \in {"idle", "line12", "line15"}

\* the system clock moves on by one tick
Tick ==
    /\ ReadAhead
    /\ \E c \in Window(clock) :
          /\ Earlier(clock, c)
          /\ \A d \in Window(clock) : ~(Earlier(clock, d) /\ Earlier(d, c))
          /\ clock' = c
          /\ seen' = IF InCall THEN seen \cup {c.sec} ELSE seen
    /\ UNCHANGED <<stepped, pc, args, current_time, id_second,
                   payload, response, exc, requests, stdout, prev>>

\* the system clock is set back (an NTP step, an operator): datetime.now() reads
\* the realtime clock, which is not monotonic
StepBack ==
    /\ ReadAhead
    /\ \E c \in Window(clock) :
          /\ Earlier(c, clock)
          /\ clock' = c
          /\ seen' = IF InCall THEN seen \cup {c.sec} ELSE seen
    /\ stepped' = InCall
    /\ UNCHANGED <<pc, args, current_time, id_second,
                   payload, response, exc, requests, stdout, prev>>

\* line 6: a caller invokes send_call_transcript
Call(transcript, caller_name, caller_phone) ==
    /\ pc = "idle"
    /\ args' = [transcript |-> transcript, caller_name |-> caller_name,
                caller_phone |-> caller_phone]
    /\ pc' = "line12"
    /\ seen' = {clock.sec}
    /\ stepped' = FALSE
    /\ UNCHANGED <<clock, current_time, id_second, payload,
                   response, exc, requests, stdout, prev>>

\* lines 11-12
ReadCurrentTime ==
    /\ pc = "line12"
    /\ current_time' = NowIst(Now)
    /\ pc' = "line15"
    /\ UNCHANGED <<clock, stepped, seen, args, id_second,
                   payload, response, exc, requests, stdout, prev>>

\* lines 15-28
BuildPayload ==
    /\ pc = "line15"
    /\ id_second' = IntTimestamp(Now)
    /\ payload' = Payload(MakeId(Now), current_time, args)
    /\ pc' = "line32"
    /\ UNCHANGED <<clock, stepped, seen, args, current_time,
                   response, exc, requests, stdout, prev>>

\* line 32: requests.post is handed the request, and raises or returns a response
Post ==
    /\ pc = "line32"
    /\ requests' = Append(requests, [url |-> Url, json |-> payload, headers |-> Headers])
    /\ \/ \E e \in TransportErrors :
             /\ exc' = e
             /\ pc' = "line42"
             /\ UNCHANGED response
       \/ \E status_code \in StatusCodes, text \in Bodies :
             /\ response' = [status_code |-> status_code, text |-> text]
             /\ pc' = "line35"
             /\ UNCHANGED exc
    /\ UNCHANGED <<clock, stepped, seen, args, current_time,
                   id_second, payload, stdout, prev>>

\* line 35
CheckStatus ==
    /\ pc = "line35"
    /\ pc' = IF IsSuccess(response.status_code) THEN "line36" ELSE "line39"
    /\ UNCHANGED <<clock, stepped, seen, args, current_time,
                   id_second, payload, response, exc, requests, stdout, prev>>

\* line 36
PrintSuccess ==
    /\ pc = "line36"
    /\ stdout' = Append(stdout, Line(SuccessMsg, <<>>))
    /\ pc' = "line37"
    /\ UNCHANGED <<clock, stepped, seen, args, current_time,
                   id_second, payload, response, exc, requests, prev>>

\* line 37: response.json() is evaluated before print is called
PrintJson ==
    /\ pc = "line37"
    /\ LET r == ResponseJson(response.text)
       IN  IF r.ok
           THEN /\ stdout' = Append(stdout, Line(ResponseMsg, Str(r.val)))
                /\ pc' = "returned"
                /\ UNCHANGED exc
           ELSE /\ exc' \in JsonDecodeErrors
                /\ pc' = "line42"
                /\ UNCHANGED stdout
    /\ UNCHANGED <<clock, stepped, seen, args, current_time,
                   id_second, payload, response, requests, prev>>

\* line 39
PrintStatus ==
    /\ pc = "line39"
    /\ stdout' = Append(stdout, Line(StatusErrorMsg, IntStr(response.status_code)))
    /\ pc' = "line40"
    /\ UNCHANGED <<clock, stepped, seen, args, current_time,
                   id_second, payload, response, exc, requests, prev>>

\* line 40
PrintText ==
    /\ pc = "line40"
    /\ stdout' = Append(stdout, TextLine(response))
    /\ pc' = "returned"
    /\ UNCHANGED <<clock, stepped, seen, args, current_time,
                   id_second, payload, response, exc, requests, prev>>

\* lines 42-43: an exception raised in the try block reaches the except clause
Except ==
    /\ pc = "line42"
    /\ IF Catches(exc)
       THEN /\ stdout' = Append(stdout, Line(RequestErrorMsg, exc.str))
            /\ pc' = AfterHandler
       ELSE /\ pc' = "raised"
            /\ UNCHANGED stdout
    /\ UNCHANGED <<clock, stepped, seen, args, current_time,
                   id_second, payload, response, exc, requests, prev>>

\* the function is left, by falling off its end or by the exception propagating:
\* its locals are gone
Leave ==
    /\ pc \in {"returned", "raised"}
    /\ pc' = "idle"
    /\ prev' = [id |-> payload.id, id_second |-> id_second,
                transcript |-> args.transcript]
    /\ args' = None
    /\ current_time' = None
    /\ id_second' = None
    /\ payload' = None
    /\ response' = None
    /\ exc' = None
    /\ requests' = <<>>
    /\ stdout' = <<>>
    /\ seen' = {}
    /\ stepped' = FALSE
    /\ UNCHANGED clock

Next ==
    \/ Tick
    \/ StepBack
    \/ \E t \in Transcripts, n \in Names, p \in Phones : Call(t, n, p)
    \/ ReadCurrentTime
    \/ BuildPayload
    \/ Post
    \/ CheckStatus
    \/ PrintSuccess
    \/ PrintJson
    \/ PrintStatus
    \/ PrintText
    \/ Except
    \/ Leave

Spec == Init /\ [][Next]_vars

----------------------------------------------------------------------------
(* Properties *)

\* the invocation has come to its end, one way or the other
Ended == pc \in {"returned", "raised"}

\* the POST has been made
Posted == pc \in {"line35", "line36", "line37", "line39", "line40", "line42",
                  "returned", "raised"}

\* requests.post raised
TransportFailed == exc # None /\ response = None

GotResponse == response # None

SuccessLogged == \E i \in 1..Len(stdout) : stdout[i].msg = SuccessMsg

StatusErrorLogged == \E i \in 1..Len(stdout) : stdout[i].msg = StatusErrorMsg

RequestErrorLogged == \E i \in 1..Len(stdout) : stdout[i].msg = RequestErrorMsg

\* the number written in an id
IdSecond(id) == FieldValue(id, 6, Len(id))

\* C1: send_call_transcript always returns normally: whatever the outcome of the
\* HTTP call (a transport failure, a response that is not 200, a 200 response
\* with a body that is or is not JSON), no exception propagates to the caller.
C1_NoExceptionPropagates == pc # "raised"

\* C2: when requests.post itself fails, the exception is caught, exactly one line
\* is printed, the request-error message with the failure's description, neither
\* the success message nor the status-code message is printed, and the function
\* returns normally.
C2_TransportFailureLogged ==
    TransportFailed =>
        /\ pc \in {"line42", "returned"}
        /\ pc = "line42" => stdout = <<>>
        /\ pc = "returned" => stdout = <<Line(RequestErrorMsg, exc.str)>>
        /\ ~SuccessLogged /\ ~StatusErrorLogged

C2_Witness ==
    /\ pc = "returned" /\ TransportFailed
    /\ stdout = <<Line("Error sending request:", ConnectionRefused)>>

ReprBodyJson ==
    <<"{", "'", "s", "t", "a", "t", "u", "s", "'", ":", " ", "'", "o", "k", "'", "}">>

\* C3: the success message is printed if and only if the response's status is
\* exactly 200 (201 and 204 do not count); for a 200 response with a JSON body
\* the function prints the success message, then the parsed body, and nothing
\* else, and returns.
C3_SuccessIffStatus200 ==
    /\ SuccessLogged => GotResponse /\ response.status_code = 200
    /\ (Ended /\ GotResponse /\ response.status_code = 200) => SuccessLogged
    /\ (GotResponse /\ response.status_code = 200 /\ ResponseJson(response.text).ok) =>
          /\ pc \in {"line35", "line36", "line37", "returned"}
          /\ pc = "returned" =>
                /\ stdout = <<Line(SuccessMsg, <<>>),
                              Line(ResponseMsg, Str(ResponseJson(response.text).val))>>
                /\ response.text = BodyJson => stdout[2].arg = ReprBodyJson

C3_Witness ==
    /\ pc = "returned" /\ GotResponse /\ response.status_code = 200
    /\ response.text = BodyJson
    /\ stdout = <<Line("Call transcript sent successfully!", <<>>),
                  Line("Response:", ReprBodyJson)>>

\* C4: for a response whose status is not 200, whatever its body, the function
\* prints the status code and then the raw body text, never parses the body,
\* raises nothing, and returns.
C4_FailureLogsRawBody ==
    (GotResponse /\ response.status_code # 200) =>
        /\ pc \in {"line35", "line39", "line40", "returned"}
        /\ exc = None
        /\ pc = "returned" =>
              /\ stdout = <<Line(StatusErrorMsg, IntStr(response.status_code)),
                            Line(ResponseMsg, response.text)>>
              /\ response.status_code = 500 => stdout[1].arg = <<"5", "0", "0">>

C4_Witness ==
    /\ pc = "returned" /\ GotResponse /\ response.status_code = 500
    /\ response.text = BodyText /\ ~ResponseJson(response.text).ok
    /\ stdout = <<Line("Error: Server returned status code", <<"5", "0", "0">>),
                  Line("Response:", BodyText)>>

\* C5: an invocation issues exactly one POST, to http://localhost:3000/webhook:
\* none before line 32, one from then on, and never a second one, whether the
\* call failed, answered 200 or answered something else.
C5_ExactlyOnePost ==
    /\ Len(requests) = (IF Posted THEN 1 ELSE 0)
    /\ \A i \in 1..Len(requests) : requests[i].url = "http://localhost:3000/webhook"

C5_Witness ==
    /\ pc = "returned" /\ TransportFailed /\ Len(requests) = 1

\* C6: the payload handed to the POST carries the three arguments unchanged,
\* empty strings included, and the request is sent for every triple.
C6_ArgumentsPassThrough ==
    /\ payload # None =>
          /\ payload.transcript = args.transcript
          /\ payload.caller.name = args.caller_name
          /\ payload.caller.phone = args.caller_phone
    /\ Posted =>
          /\ Len(requests) >= 1
          /\ requests[1].json.transcript = args.transcript
          /\ requests[1].json.caller = [name |-> args.caller_name,
                                        phone |-> args.caller_phone]

C6_Witness ==
    /\ Ended /\ Len(requests) = 1
    /\ args.transcript = "" /\ args.caller_name = "Arjun Kumar" /\ args.caller_phone = ""
    /\ requests[1].json.caller = [name |-> "Arjun Kumar", phone |-> ""]

C8_IdIsPrefixAndDigits ==
    payload # None =>
        /\ Len(payload.id) >= 6
        /\ SubSeq(payload.id, 1, 5) = <<"c", "a", "l", "l", "_">>
        /\ AllDigits(IdDigits(payload.id))
        /\ IdSecond(payload.id) = id_second
        /\ id_second >= 0

C8_Witness ==
    /\ payload # None
    /\ payload.id = <<"c", "a", "l", "l", "_", "1", "7", "3", "5", "6", "6", "9", "8", "0", "0">>

\* C9: the id and the timestamp of an invocation come from clock reads made
\* during that invocation: each denotes a second the clock showed since the
\* invocation began; outside an invocation no payload or timestamp is kept.
C9_FreshPerInvocation ==
    /\ current_time # None => IsoEpochSecond(current_time) \in seen
    /\ payload # None =>
          /\ IdSecond(payload.id) \in seen
          /\ payload.timestamp = current_time
    /\ pc = "idle" => payload = None /\ current_time = None

C9_Witness ==
    /\ prev # None /\ payload # None
    /\ prev.id_second \notin seen
    /\ payload.id # prev.id

\* C10: the clock is read for the timestamp before it is read for the id, and
\* the payload is complete before the POST; while the clock has not been set
\* back during the invocation, the id's second is not earlier than the second
\* the timestamp denotes (it can be later).
C10_TimestampBeforeId ==
    /\ pc = "line15" => current_time # None /\ payload = None /\ requests = <<>>
    /\ Posted => payload # None /\ requests[1].json = payload
    /\ (payload # None /\ ~stepped) =>
          IsoEpochSecond(payload.timestamp) <= IdSecond(payload.id)

C10_Witness ==
    /\ payload # None /\ ~stepped
    /\ IsoEpochSecond(payload.timestamp) < IdSecond(payload.id)

====
